---- MODULE Spec2Model ----
(***************************************************************************)
(* A model of cerebro-api's manifest store (app/manifest.py), its route    *)
(* derivation (app/factory.py) and its route-table manager                 *)
(* (app/router_manager.py, wired up in app/main.py).                       *)
(*                                                                         *)
(* Python values are modelled as follows: None is the string "None"; a     *)
(* byte string (an HTTP body, the content of the local file) is the name   *)
(* of a document of the catalogue Docs; text that the code takes apart     *)
(* (tags, paths) is a sequence of one-character strings; a route object is *)
(* a record whose id field is its object identity.                         *)
(***************************************************************************)
EXTENDS Integers, Sequences, FiniteSets, TLC

VARIABLES
    \* app/config.py: settings (fixed for one run of the process)
    DBT_MANIFEST_URL,       \* TRUE when a URL is configured, FALSE when it is None
    DBT_MANIFEST_REFRESH_ENABLED,
    manual_config,          \* the parsed content of API_CONFIG_PATH
    \* app/manifest.py: the ManifestLoader singleton
    _models, _etag, _last_modified, _hash, _last_error,
    lastLoad,               \* history: the last _load_manifest call and its return
    \* app/main.py: the import-time sequence of the module
    main_pc,
    \* FastAPI application
    routes,                 \* app.router.routes
    openapi_schema,         \* app.openapi_schema
    \* app/router_manager.py: RouterManager
    _lock,                  \* "free" or the holder of self._lock
    _dynamic_routes,        \* self._dynamic_routes
    nextId,                 \* identity given to the next generation of route objects
    pc, loc,                \* per worker thread of refresh_sync: position and locals
    _refresh_task,          \* self._refresh_task: the task tracked, NoTask for None
    tasks,                  \* the tasks asyncio.create_task made of _loop(), in order
    stop_pc                 \* the call of stop_background_refresh: position, task awaited

confVars  == <<DBT_MANIFEST_URL, DBT_MANIFEST_REFRESH_ENABLED, manual_config>>
storeVars == <<_models, _etag, _last_modified, _hash, _last_error>>
appVars   == <<routes, openapi_schema>>
mgrVars   == <<_lock, _dynamic_routes, nextId, pc, loc>>
loopVars  == <<_refresh_task, tasks, stop_pc>>
vars == <<confVars, storeVars, lastLoad, main_pc, appVars, mgrVars, loopVars>>

None == "None"

\* None (or the empty string) where the value is text held as a sequence of characters
NoText == <<>>

\* Python truthiness of an Optional[str]
Truthy(x) == x # None /\ x # ""

(***************************************************************************)
(* Characters and text                                                     *)
(***************************************************************************)
RECURSIVE JoinWith(_, _)
\* sep.join(parts) for sequences of characters
JoinWith(sep, parts) ==
    IF parts = <<>> THEN <<>>
    ELSE IF Len(parts) = 1 THEN parts[1]
    ELSE parts[1] \o sep \o JoinWith(sep, Tail(parts))

(***************************************************************************)
(* The documents the remote source or the local file may hold.  A document *)
(* stands for its bytes; Parse gives what json.loads / response.json()     *)
(* makes of them.                                                          *)
(***************************************************************************)
T_production == <<"p","r","o","d","u","c","t","i","o","n">>
T_view       == <<"v","i","e","w">>
T_api_x      == <<"a","p","i",":","x">>
T_api_y      == <<"a","p","i",":","y">>
T_cat        == <<"c">>
T_daily      == <<"g","r","a","n","u","l","a","r","i","t","y",":","d">>

Node(rt, name, tags) == [resource_type |-> rt, name |-> name, tags |-> tags]

\* data: [kind |-> "error"]                 the bytes are not JSON
\*       [kind |-> "falsy"]                 JSON that Python takes for false ({} or [] or null)
\*       [kind |-> "other"]                 true-ish JSON that is no mapping ([1], "x")
\*       [kind |-> "dict", nodes |-> seq]   a mapping; nodes is data.get("nodes", {}) in order
Docs ==
    [ bad   |-> [kind |-> "error"],
      empty |-> [kind |-> "falsy"],
      list  |-> [kind |-> "other"],
      mA    |-> [kind |-> "dict",
                 nodes |-> << Node("model", "m1", <<T_production, T_cat, T_api_x>>),
                              Node("model", "m2", <<T_production, T_api_y, T_daily>>),
                              Node("seed",  "s1", <<T_production, T_api_x>>) >>],
      mB    |-> [kind |-> "dict",
                 nodes |-> << Node("model", "m2", <<T_production, T_api_y, T_daily>>),
                              Node("model", "m3", <<T_view, T_cat>>) >>] ]

DocIds == DOMAIN Docs

Parse(bytes) == Docs[bytes]

\* hashlib.sha256(data).hexdigest(): one digest per byte string, never empty
_hash_bytes(data) == "sha256:" \o data

\* json.dumps(data, sort_keys=True).encode("utf-8") of a parsed document
CanonicalBytes(bytes) == "canon:" \o bytes

(***************************************************************************)
(* What the environment may answer to one load: the HTTP response to       *)
(* requests.get (or its exception) and the state of the local file.        *)
(***************************************************************************)
HeaderPairs == { <<None, None>>, <<"e1", "t1">>, <<"e2", None>> }

Responses ==
    { [kind |-> "exc", status |-> 0, content |-> "bad", ETag |-> None, LastModified |-> None] }
    \cup { [kind |-> "http", status |-> s, content |-> "bad", ETag |-> None, LastModified |-> None]
             : s \in {304, 500} }
    \cup { [kind |-> "http", status |-> 200, content |-> d, ETag |-> h[1], LastModified |-> h[2]]
             : d \in DocIds, h \in HeaderPairs }

\* the local file: "absent" when os.path.exists is false, else its bytes
Files == {"absent"} \cup DocIds

\* the request headers of lines 38-43 (None: the header is not sent)
RequestHeaders(st, conditional) ==
    [ IfNoneMatch     |-> IF conditional /\ Truthy(st.etag) THEN st.etag ELSE None,
      IfModifiedSince |-> IF conditional /\ Truthy(st.last_modified) THEN st.last_modified ELSE None ]

\* A server answers 304 only to a request that carries a validator.
Answers(st, conditional, resp) ==
    (resp.kind = "http" /\ resp.status = 304)
        => LET h == RequestHeaders(st, conditional)
           IN  h.IfNoneMatch # None \/ h.IfModifiedSince # None

(***************************************************************************)
(* ManifestLoader._load_manifest                                           *)
(***************************************************************************)
Store == [models |-> _models, etag |-> _etag, last_modified |-> _last_modified,
          hash |-> _hash, last_error |-> _last_error]

EmptyStore == [models |-> <<>>, etag |-> None, last_modified |-> None,
               hash |-> None, last_error |-> None]

E_parse_url == "Error parsing manifest JSON from URL"
E_status    == "Failed to download manifest: Status 500"
E_fetch     == "Error fetching manifest URL"
E_local     == "Error loading local manifest"
E_none      == "No manifest loaded."

RECURSIVE JoinErrors(_)
\* " | ".join(errors)
JoinErrors(errors) ==
    IF errors = <<>> THEN ""
    ELSE IF Len(errors) = 1 THEN errors[1]
    ELSE errors[1] \o " | " \o JoinErrors(Tail(errors))

\* `if not data`: None and the false JSON values
HasData(data) == data # None /\ Parse(data).kind \in {"other", "dict"}

\* the locals of _load_manifest
NoLocals == [data |-> None, raw_bytes |-> None, errors |-> <<>>,
             new_etag |-> None, new_last_modified |-> None, source |-> None,
             not_modified |-> FALSE, looked_for_file |-> FALSE]

\* step 1, lines 35-67: the URL attempt
FetchUrl(url, resp) ==
    IF ~url THEN NoLocals
    ELSE IF resp.kind = "exc"
        THEN [NoLocals EXCEPT !.errors = <<E_fetch>>]
    ELSE IF resp.status = 304
        THEN [NoLocals EXCEPT !.not_modified = TRUE]
    ELSE IF resp.status = 200
        THEN IF Parse(resp.content).kind = "error"
             THEN [NoLocals EXCEPT !.raw_bytes = resp.content, !.errors = <<E_parse_url>>]
             ELSE [NoLocals EXCEPT !.raw_bytes = resp.content, !.data = resp.content,
                                   !.source = "url", !.new_etag = resp.ETag,
                                   !.new_last_modified = resp.LastModified]
    ELSE [NoLocals EXCEPT !.errors = <<E_status>>]

\* step 2, lines 70-80: the local file (looked_for_file is history: whether
\* line 70 came to ask for the file)
Fallback(l, allow_fallback, file) ==
    IF ~HasData(l.data) /\ allow_fallback
    THEN IF file = "absent" THEN [l EXCEPT !.looked_for_file = TRUE]
         ELSE IF Parse(file).kind = "error"
         THEN [l EXCEPT !.raw_bytes = file, !.errors = Append(l.errors, E_local),
                        !.looked_for_file = TRUE]
         ELSE [l EXCEPT !.raw_bytes = file, !.data = file, !.source = "file",
                        !.looked_for_file = TRUE]
    ELSE l

\* a faulty variant of OnNotModified: the 304 return forgets the entity tag
OnNotModified_DropsValidators(st) == [st EXCEPT !.etag = None, !.last_error = None]

\* lines 45-47: 304 returns at once (line 32 has already cleared the error)
OnNotModified(st) == [st EXCEPT !.last_error = None]

\* a faulty variant of OnNoData: the return of line 88 with no error recorded
OnNoData_RecordsNothing(st, errors) == [st EXCEPT !.last_error = None]

\* lines 82-88: no data
OnNoData(st, errors) ==
    [st EXCEPT !.last_error = IF errors # <<>> THEN JoinErrors(errors) ELSE E_none]

\* lines 90-94
NewHash(l) ==
    IF l.raw_bytes # None THEN _hash_bytes(l.raw_bytes)
    ELSE _hash_bytes(CanonicalBytes(l.data))

\* a faulty variant of HashMatches: the comparison of line 96 never succeeds
HashMatches_Never(st, new_hash) == FALSE

\* line 96
HashMatches(st, new_hash) == Truthy(st.hash) /\ new_hash = st.hash

\* lines 97-99 and 118-120: a snapshot from the local file has no validators
ClearIfFile(st, l) ==
    IF l.source = "file" THEN [st EXCEPT !.etag = None, !.last_modified = None] ELSE st

\* lines 121-124: the validators of the response are kept when it has them
TakeValidators(st, l) ==
    [st EXCEPT !.etag = IF Truthy(l.new_etag) THEN l.new_etag ELSE @,
               !.last_modified = IF Truthy(l.new_last_modified)
                                 THEN l.new_last_modified ELSE @]

\* lines 100-104: the same, of a response that is the source
TakeValidatorsOfUrl(st, l) == IF l.source = "url" THEN TakeValidators(st, l) ELSE st

\* lines 97-106: same hash (line 32 has already cleared the error)
OnHashMatch(st, l) ==
    [TakeValidatorsOfUrl(ClearIfFile(st, l), l) EXCEPT !.last_error = None]

\* the later node of a name replaces the earlier
LastOfName(nodes, idx, nm) ==
    CHOOSE i \in idx : nodes[i].name = nm /\ \A j \in idx : nodes[j].name = nm => j <= i

IndexOver(nodes, idx) ==
    [nm \in { nodes[i].name : i \in idx } |-> nodes[LastOfName(nodes, idx, nm)]]

\* lines 109-113: new_models
IndexModels(nodes) ==
    IndexOver(nodes, { i \in 1..Len(nodes) : nodes[i].resource_type = "model" })

\* lines 115-116
Replace(st, l, new_hash) ==
    [st EXCEPT !.models = IndexModels(Parse(l.data).nodes), !.hash = new_hash]

\* lines 115-126: the snapshot is replaced
OnChanged(st, l, new_hash) ==
    [TakeValidators(ClearIfFile(Replace(st, l, new_hash), l), l) EXCEPT !.last_error = None]

\* What one call does: the return point reached ("304", "nodata", "hashmatch",
\* "indexed", or "raise" when data.get of line 110 raises AttributeError because
\* the document is no mapping), the value returned and the store left behind.
Outcome(path, ret, st, l) ==
    [path |-> path, raised |-> path = "raise", ret |-> ret, store |-> st,
     source |-> l.source, data |-> l.data, looked_for_file |-> l.looked_for_file]

\* lines 96-129
AfterHash(st, l, new_hash) ==
    IF HashMatches(st, new_hash) THEN Outcome("hashmatch", FALSE, OnHashMatch(st, l), l)
    ELSE IF Parse(l.data).kind # "dict"
         THEN Outcome("raise", FALSE, [st EXCEPT !.last_error = None], l)
    ELSE Outcome("indexed", TRUE, OnChanged(st, l, new_hash), l)

\* lines 82-129
AfterSources(st, l) ==
    IF ~HasData(l.data) THEN Outcome("nodata", FALSE, OnNoData(st, l.errors), l)
    ELSE AfterHash(st, l, NewHash(l))

\* lines 45-47 and 69-129
AfterUrl(st, l1, allow_fallback, file) ==
    IF l1.not_modified THEN Outcome("304", FALSE, OnNotModified(st), l1)
    ELSE AfterSources(st, Fallback(l1, allow_fallback, file))

_load_manifest(st, url, allow_fallback, conditional, resp, file) ==
    AfterUrl(st, FetchUrl(url, resp), allow_fallback, file)

\* a faulty variant of reload_if_changed: every load is reported as a change
reload_if_changed_AlwaysChanged(o) == [changed |-> TRUE, error |-> None]

\* reload_if_changed, lines 136-141: (changed, error)
reload_if_changed(o) ==
    IF o.ret THEN [changed |-> TRUE, error |-> None]
    ELSE IF Truthy(o.store.last_error) THEN [changed |-> FALSE, error |-> o.store.last_error]
    ELSE [changed |-> FALSE, error |-> None]

\* model_count
model_count(models) == Cardinality(DOMAIN models)

(***************************************************************************)
(* app/factory.py: DynamicRouter                                           *)
(***************************************************************************)
LowerMap == [A |-> "a", B |-> "b", C |-> "c", D |-> "d", E |-> "e", F |-> "f", G |-> "g", H |-> "h", I |-> "i", J |-> "j", K |-> "k", L |-> "l", M |-> "m", N |-> "n", O |-> "o", P |-> "p", Q |-> "q", R |-> "r", S |-> "s", T |-> "t", U |-> "u", V |-> "v", W |-> "w", X |-> "x", Y |-> "y", Z |-> "z"]

\* str.lower(), character by character
Lower(s) == [i \in 1..Len(s) |-> IF s[i] \in DOMAIN LowerMap THEN LowerMap[s[i]] ELSE s[i]]

Whitespace == {" "}
Digits == {"0","1","2","3","4","5","6","7","8","9"}

\* str.startswith
StartsWith(s, prefix) ==
    Len(s) >= Len(prefix) /\ SubSeq(s, 1, Len(prefix)) = prefix

\* s[n:]
From(s, n) == SubSeq(s, n + 1, Len(s))

\* str.strip()
Strip(s) ==
    LET keep == { i \in 1..Len(s) : s[i] \notin Whitespace }
    IN  IF keep = {} THEN <<>>
        ELSE LET lo == CHOOSE i \in keep : \A j \in keep : i <= j
                 hi == CHOOSE i \in keep : \A j \in keep : j <= i
             IN  SubSeq(s, lo, hi)

\* the first of the positions that pass the test of a for loop which returns at
\* its first match; 0 when none passes and the loop runs out
FirstOf(hits) == IF hits = {} THEN 0 ELSE CHOOSE i \in hits : \A j \in hits : i <= j

P_api         == <<"a","p","i",":">>
P_granularity == <<"g","r","a","n","u","l","a","r","i","t","y",":">>
P_tier        == <<"t","i","e","r">>
W_general     == <<"g","e","n","e","r","a","l">>

\* line 35
ApiResourceOf(tag) == Strip(From(tag, 4))

\* lines 34-36
IsApiTag(tag) == StartsWith(tag, P_api) /\ ApiResourceOf(tag) # <<>>

\* lines 36 and 38: the resource of the tag returned at, None after the loop
ApiResourceAt(dbt_tags, i) == IF i = 0 THEN NoText ELSE ApiResourceOf(dbt_tags[i])

\* lines 24-38
_extract_api_resource(dbt_tags) ==
    ApiResourceAt(dbt_tags, FirstOf({ i \in 1..Len(dbt_tags) : IsApiTag(dbt_tags[i]) }))

\* line 51
GranularityOf(tag) == Lower(Strip(From(tag, 12)))

\* lines 50-52
IsGranularityTag(tag) == StartsWith(tag, P_granularity) /\ GranularityOf(tag) # <<>>

\* lines 52 and 54
GranularityAt(dbt_tags, i) == IF i = 0 THEN NoText ELSE GranularityOf(dbt_tags[i])

\* lines 40-54
_extract_granularity(dbt_tags) ==
    GranularityAt(dbt_tags,
                  FirstOf({ i \in 1..Len(dbt_tags) : IsGranularityTag(dbt_tags[i]) }))

\* lines 65-71
system_tags ==
    { <<"p","r","o","d","u","c","t","i","o","n">>,
      <<"v","i","e","w">>,
      <<"t","a","b","l","e">>,
      <<"i","n","c","r","e","m","e","n","t","a","l">>,
      <<"s","t","a","g","i","n","g">>,
      <<"i","n","t","e","r","m","e","d","i","a","t","e">>,
      <<"d","a","i","l","y">>,
      <<"w","e","e","k","l","y">>,
      <<"m","o","n","t","h","l","y">>,
      <<"h","o","u","r","l","y">>,
      <<"l","a","t","e","s","t">>,
      <<"i","n","_","r","a","n","g","e","s">>,
      <<"l","a","s","t","_","3","0","d">>,
      <<"l","a","s","t","_","7","d">>,
      <<"a","l","l","_","t","i","m","e">> }

\* re.match(r'^tier\d+$', tag_lower)
IsTierTag(tag_lower) ==
    /\ Len(tag_lower) > 4
    /\ SubSeq(tag_lower, 1, 4) = P_tier
    /\ \A i \in 5..Len(tag_lower) : tag_lower[i] \in Digits

\* lines 76-83, of a tag already lower-cased and the tag as stored
IsCategory(tag_lower, tag) ==
    /\ tag_lower \notin system_tags
    /\ ~IsTierTag(tag_lower)
    /\ \A j \in 1..Len(tag) : tag[j] # ":"

IsCategoryTag(tag) == IsCategory(Lower(tag), tag)

\* lines 56-86
\* lines 84 and 86
CategoryAt(dbt_tags, i) == IF i = 0 THEN W_general ELSE Lower(dbt_tags[i])

\* lines 56-86
_extract_category(dbt_tags) ==
    CategoryAt(dbt_tags, FirstOf({ i \in 1..Len(dbt_tags) : IsCategoryTag(dbt_tags[i]) }))

\* config.py line 88
DEFAULT_ENDPOINT_TIER == <<"t","i","e","r","0">>

\* lines 229-231: the tag returned at, the default after the loop
TierAt(dbt_tags, i) == IF i = 0 THEN DEFAULT_ENDPOINT_TIER ELSE Lower(dbt_tags[i])

\* lines 215-231
_get_required_tier(dbt_tags) ==
    TierAt(dbt_tags, FirstOf({ i \in 1..Len(dbt_tags) : IsTierTag(Lower(dbt_tags[i])) }))

\* lines 108-121: NoText when no path can be built
PathOf(category, api_resource, granularity) ==
    IF api_resource = NoText THEN NoText
    ELSE <<"/">> \o JoinWith(<<"/">>, IF granularity # NoText
                                      THEN <<category, api_resource, granularity>>
                                      ELSE <<category, api_resource>>)

\* a faulty variant of _build_url_path: lines 102-103 are missing, the path of
\* the override is ignored
_build_url_path_IgnoresOverride(dbt_tags, override) ==
    PathOf(_extract_category(dbt_tags), _extract_api_resource(dbt_tags),
           _extract_granularity(dbt_tags))

\* lines 88-121
_build_url_path(dbt_tags, override) ==
    IF override.path # NoText THEN override.path
    ELSE PathOf(_extract_category(dbt_tags), _extract_api_resource(dbt_tags),
                _extract_granularity(dbt_tags))

\* manifest.get_columns, lines 158-167: the columns of a model in the order of
\* the manifest, each with its data_type, "String" when the manifest gives none
get_columns(models, model_name) ==
    IF model_name \notin DOMAIN models THEN <<>>
    ELSE IF "columns" \notin DOMAIN models[model_name] THEN <<>>
    ELSE [i \in 1..Len(models[model_name].columns) |->
            [name |-> models[model_name].columns[i].name,
             data_type |-> IF models[model_name].columns[i].data_type = NoText
                           THEN <<"S","t","r","i","n","g">>
                           ELSE models[model_name].columns[i].data_type]]

\* sub in s, of two strings
Contains(s, sub) ==
    \E i \in 0..(Len(s) - Len(sub)) : SubSeq(s, i + 1, i + Len(sub)) = sub

\* lines 273 and 320: 'Date' in columns[c] or 'Time' in columns[c]
IsDateType(data_type) ==
    Contains(data_type, <<"D","a","t","e">>) \/ Contains(data_type, <<"T","i","m","e">>)

\* line 274: the column names taken for dates when the filters are detected
FilterDateNames ==
    { <<"d","a","t","e">>, <<"t","i","m","e","s","t","a","m","p">>,
      <<"b","l","o","c","k","_","t","i","m","e","s","t","a","m","p">> }

\* line 321: the column names taken for dates when the ordering is chosen
OrderDateNames ==
    { <<"d","a","t","e">>, <<"t","i","m","e","s","t","a","m","p">> }

\* lines 271-275 and 318-322: the list comprehension, over the names given
date_cols(columns, names) ==
    SelectSeq(columns, LAMBDA c : IsDateType(c.data_type) \/ c.name \in names)

Param(name, column, operator) == [name |-> name, column |-> column, operator |-> operator]

\* lines 276-289
DateFilters(cols) ==
    IF cols = <<>> THEN <<>>
    ELSE << Param(<<"s","t","a","r","t","_","d","a","t","e">>, cols[1].name, ">="),
            Param(<<"e","n","d","_","d","a","t","e">>, cols[1].name, "<=") >>

\* lines 292-308: the address filter, then the filters on the common ids
OtherFilters(columns) ==
    LET has(n) == \E i \in 1..Len(columns) : columns[i].name = n
        one(n, op) == IF has(n) THEN << Param(n, n, op) >> ELSE <<>>
    IN  one(<<"a","d","d","r","e","s","s">>, "ILIKE")
            \o one(<<"p","r","o","j","e","c","t">>, "=")
            \o one(<<"s","e","c","t","o","r">>, "=")
            \o one(<<"l","a","b","e","l">>, "=")
            \o one(<<"s","t","a","t","u","s">>, "=")

\* override.get(key): NoText when the override does not set it
Setting(override, key) == IF key \in DOMAIN override THEN override[key] ELSE NoText

\* lines 268-308: the parameters the handler accepts
allowed_params(columns, override) ==
    IF Setting(override, "parameters") # <<>> THEN Setting(override, "parameters")
    ELSE DateFilters(date_cols(columns, FilterDateNames)) \o OtherFilters(columns)

\* lines 318-325, the ordering detected
DefaultOrder(cols) ==
    IF cols = <<>> THEN NoText ELSE cols[1].name \o <<" ","D","E","S","C">>

\* lines 316-325: the ORDER BY of the handler, NoText when it has none
order_by(columns, override) ==
    IF Setting(override, "order_by") # NoText THEN Setting(override, "order_by")
    ELSE DefaultOrder(date_cols(columns, OrderDateNames))

\* manifest.get_tags, lines 169-173
get_tags(models, model_name) ==
    IF model_name \in DOMAIN models THEN models[model_name].tags ELSE <<>>

\* an override that sets nothing: the {} of line 153
NoOverride(model_name) == [model |-> model_name, path |-> NoText]

\* lines 242-393, the path built: "skip" (line 244), "raise" (line 381: dbt_node
\* is None for a model the manifest does not hold) or the route of line 386
RouteAt(models, model_name, override, url_path) ==
    IF url_path = NoText THEN [kind |-> "skip"]
    ELSE IF model_name \notin DOMAIN models THEN [kind |-> "raise"]
    ELSE [kind |-> "route", name |-> model_name, path |-> url_path,
          manual |-> override # NoOverride(model_name)]

\* lines 233-393
_create_auto_route(models, model_name, override) ==
    RouteAt(models, model_name, override,
            _build_url_path(get_tags(models, model_name), override))

\* a faulty variant of models_to_expose: every model of the manifest is taken
models_to_expose_All(models) == DOMAIN models

\* lines 131-143: auto-discovery
models_to_expose(models) ==
    { m \in DOMAIN models :
        /\ \E i \in 1..Len(models[m].tags) : models[m].tags[i] = T_production
        /\ _extract_api_resource(models[m].tags) # NoText }

\* line 149: the last endpoint of a model wins
LastEndpoint(endpoints, idx, model_name) ==
    IF idx = {} THEN NoOverride(model_name)
    ELSE endpoints[CHOOSE i \in idx : \A j \in idx : j <= i]

manual_map(endpoints, model_name) ==
    LastEndpoint(endpoints, { i \in 1..Len(endpoints) : endpoints[i].model = model_name },
                 model_name)

\* the orders in which a Python set may be iterated
Orders(S) == { o \in [1..Cardinality(S) -> S] : \A i, j \in DOMAIN o : o[i] = o[j] => i = j }

\* lines 152-154, then lines 157-159 over the endpoints left: the calls of
\* _create_auto_route, in order
CallsFor(models, endpoints, todo) ==
    [i \in 1..Len(todo) |-> _create_auto_route(models, todo[i].model, todo[i])]

Discovered(endpoints, order) ==
    [i \in 1..Len(order) |-> manual_map(endpoints, order[i])]

NotExposed(endpoints, exposed) ==
    SelectSeq(endpoints, LAMBDA ep : ep.model \notin exposed)

BuildCalls(models, endpoints, order) ==
    CallsFor(models, endpoints,
             Discovered(endpoints, order) \o NotExposed(endpoints, models_to_expose(models)))

\* the routes registered, unless a call raised
RouterOf(calls) ==
    [raised |-> \E i \in 1..Len(calls) : calls[i].kind = "raise",
     routes |-> SelectSeq(calls, LAMBDA c : c.kind = "route")]

\* build_router(): DynamicRouter().router, or the exception of the first call
\* that raises
build_router(models, config, order) == RouterOf(BuildCalls(models, config.endpoints, order))

(***************************************************************************)
(* Bounds and the configurations explored                                  *)
(***************************************************************************)
\* the generations of route objects one run may create (the first is the
\* initial install)
MaxGen == 2

\* the worker threads asyncio.to_thread may run refresh_sync on
Workers == {"w1", "w2"}

\* the contents of API_CONFIG_PATH explored
ManualConfigs ==
    { [endpoints |-> <<>>],
      [endpoints |-> << [model |-> "m3", path |-> <<"/","k">>] >>],
      [endpoints |-> << [model |-> "m1", path |-> NoText] >>] }

\* the settings explored: each manual configuration with a URL, and no URL
Settings ==
    { <<TRUE, c>> : c \in ManualConfigs } \cup { <<FALSE, [endpoints |-> <<>>]>> }

(***************************************************************************)
(* The FastAPI application and app/main.py                                 *)
(***************************************************************************)
V1 == <<"/","v","1">>

\* a route object of app.router.routes; id is its identity: <<0, k>> for the
\* k-th route registered outside the manager, <<g, k>> for the k-th route of
\* the g-th generation the manager included
Route(id, name, path) == [id |-> id, name |-> name, path |-> path]

\* the routes FastAPI(...) of main.py line 23 registers itself
DocRoutes ==
    << Route(<<0, 1>>, "openapi", <<"/","o","p","e","n","a","p","i",".","j","s","o","n">>),
       Route(<<0, 2>>, "swagger_ui_html", <<"/","d","o","c","s">>) >>

\* main.py lines 42-54
OwnRoutes ==
    << Route(<<0, 3>>, "root", <<"/">>),
       Route(<<0, 4>>, "refresh_manifest", <<"/","v","1","/","s","y","s","t","e","m","/","m","a","n","i","f","e","s","t","/","r","e","f","r","e","s","h">>) >>

Ids(rs) == { rs[i].id : i \in 1..Len(rs) }
Elems(rs) == { rs[i] : i \in 1..Len(rs) }

(***************************************************************************)
(* RouterManager._swap_routes, lines 23-35                                 *)
(***************************************************************************)
\* line 26, one route: include_router registers a new route object for each
\* route of the router, under the prefix
IncludeOne(rs, router, gen, k) ==
    Append(rs, Route(<<gen, k>>, router[k].name, V1 \o router[k].path))

RECURSIVE IncludeFrom(_, _, _, _)
\* line 26 from the k-th route on
IncludeFrom(rs, router, gen, k) ==
    IF k > Len(router) THEN rs
    ELSE IncludeFrom(IncludeOne(rs, router, gen, k), router, gen, k + 1)

\* line 27
Added(rs, before_ids) == SelectSeq(rs, LAMBDA r : r.id \notin before_ids)

\* a faulty variant of RemoveOld: the old generation is never filtered out
RemoveOld_KeepsAll(rs, dynamic) == rs

\* a faulty variant of RemoveOld: the filter also takes every route under the
\* prefix that the manager did not include
RemoveOld_DropsPrefixed(rs, dynamic) ==
    IF dynamic # <<>>
    THEN SelectSeq(rs, LAMBDA r : r \notin Elems(dynamic)
                                  /\ ~(r.id[1] = 0 /\ StartsWith(r.path, V1)))
    ELSE rs

\* lines 29-32
RemoveOld(rs, dynamic) ==
    IF dynamic # <<>> THEN SelectSeq(rs, LAMBDA r : r \notin Elems(dynamic)) ELSE rs

\* lines 27-34, after line 26 has included the router
AfterInclude(included, before_ids, dynamic) ==
    [routes |-> RemoveOld(included, dynamic), dynamic |-> Added(included, before_ids)]

\* the whole of _swap_routes, for a caller nothing runs beside
SwapRoutes(rs, dynamic, router, gen) ==
    AfterInclude(IncludeFrom(rs, router, gen, 1), Ids(rs), dynamic)

(***************************************************************************)
(* RouterManager.refresh_sync, lines 37-47                                 *)
(***************************************************************************)
\* a faulty variant of refresh_branch: line 42 is missing, an unchanged reload
\* goes on to the rebuild
refresh_branch_RebuildsUnchanged(r) == IF Truthy(r.error) THEN "error" ELSE "rebuild"

\* lines 40-45: what follows the reload
refresh_branch(r) ==
    IF Truthy(r.error) THEN "error"
    ELSE IF ~r.changed THEN "unchanged"
    ELSE "rebuild"

Payload(status, models, detail) == [status |-> status, models |-> models, detail |-> detail]

NoPayload == Payload(None, 0, None)

\* the locals of one refresh_sync call; remote, path, data and overlap are
\* history: what the remote source answered (RemoteClass), the return point the
\* load reached, the document the load took for data, and whether another call
\* was under way at some time during this one
NoLoc == [remote |-> None, path |-> None, data |-> None, overlap |-> FALSE,
          changed |-> FALSE, error |-> None,
          router |-> <<>>, gen |-> 0, before_ids |-> {}, k |-> 0, added |-> <<>>,
          result |-> NoPayload]

\* self._refresh_task = None (router_manager.py line 16)
NoTask == 0

\* no call of stop_background_refresh so far
NoStop == [pc |-> "idle", task |-> NoTask]

\* the manager as __init__ leaves it, before any call of start or stop
NoLoop ==
    /\ _refresh_task = NoTask
    /\ tasks = <<>>
    /\ stop_pc = NoStop

\* lastLoad before any call
NoCall == [called |-> FALSE, allow_fallback |-> FALSE, conditional |-> FALSE,
           answer |-> None, path |-> None, ret |-> FALSE, source |-> None, data |-> None]

Init ==
    /\ \E s \in Settings : DBT_MANIFEST_URL = s[1] /\ manual_config = s[2]
    /\ DBT_MANIFEST_REFRESH_ENABLED = TRUE
    /\ NoLoop
    /\ _models = <<>> /\ _etag = None /\ _last_modified = None
    /\ _hash = None /\ _last_error = None
    /\ lastLoad = NoCall
    /\ main_pc = "construct"
    /\ routes = DocRoutes
    /\ openapi_schema = None
    /\ _lock = "free"
    /\ _dynamic_routes = <<>>
    /\ nextId = 1
    /\ pc = [w \in Workers |-> "idle"]
    /\ loc = [w \in Workers |-> NoLoc]

SetStore(st) ==
    /\ _models' = st.models /\ _etag' = st.etag /\ _last_modified' = st.last_modified
    /\ _hash' = st.hash /\ _last_error' = st.last_error

\* what the remote source answered: "exc", "304", "200", "500", or None when no
\* URL is configured and nothing was asked
AnswerOf(resp) ==
    IF ~DBT_MANIFEST_URL THEN None
    ELSE IF resp.kind = "exc" THEN "exc"
    ELSE IF resp.status = 304 THEN "304"
    ELSE IF resp.status = 200 THEN "200"
    ELSE "500"

\* the record of a call kept in lastLoad: its flags, the answer, the return point
\* reached, the value returned, and the source and document of the data accepted
CallRecord(allow_fallback, conditional, resp, o) ==
    [called |-> TRUE, allow_fallback |-> allow_fallback, conditional |-> conditional,
     answer |-> AnswerOf(resp), path |-> o.path, ret |-> o.ret,
     source |-> o.source, data |-> o.data]

(***************************************************************************)
(* app/main.py at import: the manifest singleton is constructed, the first *)
(* routes are installed, then the module registers its own routes          *)
(***************************************************************************)
\* manifest.py lines 11-20 and 178: ManifestLoader(), o what its load did
Constructed(o) ==
    /\ SetStore(o.store)
    /\ main_pc' = IF o.raised THEN "crashed" ELSE "install"

Construct ==
    /\ main_pc = "construct"
    /\ \E resp \in Responses, file \in Files :
        /\ Answers(Store, FALSE, resp)
        /\ Constructed(_load_manifest(Store, DBT_MANIFEST_URL, TRUE, FALSE, resp, file))
    /\ UNCHANGED <<confVars, loopVars, lastLoad, appVars, mgrVars>>

\* router_manager.py lines 20-21
Swapped(swap) ==
    /\ routes' = swap.routes
    /\ _dynamic_routes' = swap.dynamic
    /\ nextId' = nextId + 1

\* router_manager.py lines 18-21, router what build_router() gave
Installed(router) ==
    IF router.raised
    THEN /\ main_pc' = "crashed"
         /\ UNCHANGED <<routes, _dynamic_routes, nextId>>
    ELSE /\ main_pc' = "register"
         /\ Swapped(SwapRoutes(routes, _dynamic_routes, router.routes, nextId))

\* router_manager.py lines 18-21, called at main.py line 30
install_initial_routes ==
    /\ main_pc = "install"
    /\ \E order \in Orders(models_to_expose(_models)) :
        Installed(build_router(_models, manual_config, order))
    /\ openapi_schema' = None
    /\ UNCHANGED <<confVars, loopVars, storeVars, lastLoad, _lock, pc, loc>>

\* main.py lines 42-54
RegisterOwnRoutes ==
    /\ main_pc = "register"
    /\ routes' = routes \o OwnRoutes
    /\ main_pc' = "serving"
    /\ UNCHANGED <<confVars, loopVars, storeVars, lastLoad, openapi_schema, mgrVars>>

(***************************************************************************)
(* One refresh_sync call on worker thread w                                *)
(***************************************************************************)
Active(w) == pc[w] \notin {"idle", "done", "raised"}

\* refresh_async, lines 49-50: refresh_sync starts on a thread
Dispatched(w) ==
    /\ pc[w] = "idle"
    /\ pc' = [pc EXCEPT ![w] = "l38"]
    /\ loc' = [v \in Workers |->
                 IF v = w THEN [NoLoc EXCEPT !.overlap = \E u \in Workers : Active(u)]
                 ELSE IF Active(v) THEN [loc[v] EXCEPT !.overlap = TRUE]
                 ELSE loc[v]]

\* refresh_async called by the administrative endpoint (main.py line 54)
Trigger(w) ==
    /\ main_pc = "serving"
    /\ Dispatched(w)
    /\ UNCHANGED <<confVars, loopVars, storeVars, lastLoad, main_pc, appVars, _lock,
                   _dynamic_routes, nextId>>

\* a faulty variant of CanAcquire: the with statement never waits
CanAcquire_Always(w) == TRUE

\* line 38: with self._lock
CanAcquire(w) == _lock = "free"

Acquire(w) ==
    /\ pc[w] = "l38"
    /\ CanAcquire(w)
    /\ _lock' = w
    /\ pc' = [pc EXCEPT ![w] = "l39"]
    /\ UNCHANGED <<confVars, loopVars, storeVars, lastLoad, main_pc, appVars,
                   _dynamic_routes, nextId, loc>>

\* What the remote source answered to a refresh, against the snapshot st held
\* before it: "notmodified" (304), "same" (200 and the bytes whose hash is
\* stored), "new" (200 and other bytes that parse to something true), "nothing"
\* (no URL, an exception, another status, bytes that are no JSON or parse to
\* something false)
RemoteClass(st, url, resp) ==
    IF ~url \/ resp.kind = "exc" THEN "nothing"
    ELSE IF resp.status = 304 THEN "notmodified"
    ELSE IF resp.status # 200 \/ Parse(resp.content).kind \in {"error", "falsy"} THEN "nothing"
    ELSE IF st.hash = _hash_bytes(resp.content) THEN "same"
    ELSE "new"

\* lines 40-47 for worker w: r is what reload_if_changed returned, n the
\* model_count() of the payload, o what the load did, remote the answer's class
Reloaded(w, o, r, n, remote) ==
    IF o.raised
    THEN /\ pc' = [pc EXCEPT ![w] = "raised"]
         /\ _lock' = "free"
         /\ loc' = [loc EXCEPT ![w].remote = remote, ![w].path = o.path, ![w].data = o.data]
    ELSE IF refresh_branch(r) = "error"
    THEN /\ pc' = [pc EXCEPT ![w] = "done"]
         /\ _lock' = "free"
         /\ loc' = [loc EXCEPT ![w].remote = remote, ![w].path = o.path, ![w].data = o.data,
                               ![w].changed = r.changed, ![w].error = r.error,
                               ![w].result = Payload("error", n, r.error)]
    ELSE IF refresh_branch(r) = "unchanged"
    THEN /\ pc' = [pc EXCEPT ![w] = "done"]
         /\ _lock' = "free"
         /\ loc' = [loc EXCEPT ![w].remote = remote, ![w].path = o.path, ![w].data = o.data,
                               ![w].changed = r.changed, ![w].error = r.error,
                               ![w].result = Payload("unchanged", n, None)]
    ELSE /\ pc' = [pc EXCEPT ![w] = "l45"]
         /\ _lock' = _lock
         /\ loc' = [loc EXCEPT ![w].remote = remote, ![w].path = o.path, ![w].data = o.data,
                               ![w].changed = r.changed, ![w].error = r.error]

\* line 39 for worker w, o what the load did
Loaded(w, o, remote) ==
    /\ o.ret => nextId <= MaxGen
    /\ SetStore(o.store)
    /\ Reloaded(w, o, reload_if_changed(o), model_count(o.store.models), remote)

\* lines 39-43: the reload, and the return of a refresh that rebuilds nothing
Reload(w) ==
    /\ pc[w] = "l39"
    /\ \E resp \in Responses :
        /\ Answers(Store, TRUE, resp)
        /\ Loaded(w, _load_manifest(Store, DBT_MANIFEST_URL, FALSE, TRUE, resp, "absent"),
                  RemoteClass(Store, DBT_MANIFEST_URL, resp))
    /\ UNCHANGED <<confVars, loopVars, lastLoad, main_pc, appVars, _dynamic_routes, nextId>>

\* a faulty variant of Built: the exception of build_router leaves the with
\* block without releasing the lock
Built_KeepsLock(w, router) ==
    IF router.raised
    THEN /\ pc' = [pc EXCEPT ![w] = "raised"]
         /\ _lock' = _lock
         /\ loc' = loc
    ELSE /\ pc' = [pc EXCEPT ![w] = "l25"]
         /\ _lock' = _lock
         /\ loc' = [loc EXCEPT ![w].router = router.routes]

\* line 45 for worker w, router what build_router() gave
Built(w, router) ==
    IF router.raised
    THEN /\ pc' = [pc EXCEPT ![w] = "raised"]
         /\ _lock' = "free"
         /\ loc' = loc
    ELSE /\ pc' = [pc EXCEPT ![w] = "l25"]
         /\ _lock' = _lock
         /\ loc' = [loc EXCEPT ![w].router = router.routes]

\* line 45: build_router()
Build(w) ==
    /\ pc[w] = "l45"
    /\ \E order \in Orders(models_to_expose(_models)) :
        Built(w, build_router(_models, manual_config, order))
    /\ UNCHANGED <<confVars, loopVars, storeVars, lastLoad, main_pc, appVars,
                   _dynamic_routes, nextId>>

\* line 25
SwapCapture(w) ==
    /\ pc[w] = "l25"
    /\ loc' = [loc EXCEPT ![w].before_ids = Ids(routes), ![w].gen = nextId, ![w].k = 1]
    /\ nextId' = nextId + 1
    /\ pc' = [pc EXCEPT ![w] = "l26"]
    /\ UNCHANGED <<confVars, loopVars, storeVars, lastLoad, main_pc, appVars, _lock,
                   _dynamic_routes>>

\* line 26: app.include_router, one route at a time
SwapInclude(w) ==
    /\ pc[w] = "l26"
    /\ IF loc[w].k <= Len(loc[w].router)
       THEN /\ routes' = IncludeOne(routes, loc[w].router, loc[w].gen, loc[w].k)
            /\ loc' = [loc EXCEPT ![w].k = @ + 1]
            /\ pc' = pc
       ELSE /\ pc' = [pc EXCEPT ![w] = "l27"]
            /\ UNCHANGED <<routes, loc>>
    /\ UNCHANGED <<confVars, loopVars, storeVars, lastLoad, main_pc, openapi_schema, _lock,
                   _dynamic_routes, nextId>>

\* line 27
SwapAdded(w) ==
    /\ pc[w] = "l27"
    /\ loc' = [loc EXCEPT ![w].added = Added(routes, loc[w].before_ids)]
    /\ pc' = [pc EXCEPT ![w] = "l29"]
    /\ UNCHANGED <<confVars, loopVars, storeVars, lastLoad, main_pc, appVars, _lock,
                   _dynamic_routes, nextId>>

\* lines 29-32
SwapRemove(w) ==
    /\ pc[w] = "l29"
    /\ routes' = RemoveOld(routes, _dynamic_routes)
    /\ pc' = [pc EXCEPT ![w] = "l34"]
    /\ UNCHANGED <<confVars, loopVars, storeVars, lastLoad, main_pc, openapi_schema, _lock,
                   _dynamic_routes, nextId, loc>>

\* lines 34-35
SwapTrack(w) ==
    /\ pc[w] = "l34"
    /\ _dynamic_routes' = loc[w].added
    /\ openapi_schema' = None
    /\ pc' = [pc EXCEPT ![w] = "l47"]
    /\ UNCHANGED <<confVars, loopVars, storeVars, lastLoad, main_pc, routes, _lock, nextId, loc>>

\* line 47, and the lock released on leaving the with block
Return(w) ==
    /\ pc[w] = "l47"
    /\ loc' = [loc EXCEPT ![w].result = Payload("reloaded", model_count(_models), None)]
    /\ _lock' = "free"
    /\ pc' = [pc EXCEPT ![w] = "done"]
    /\ UNCHANGED <<confVars, loopVars, storeVars, lastLoad, main_pc, appVars, _dynamic_routes,
                   nextId>>

\* a loop task is suspended at line 62 on the refresh that thread w runs
Awaited(w) ==
    \E t \in 1..Len(tasks) : tasks[t].state = "refreshing" /\ tasks[t].worker = w

\* the caller has taken the result (or the exception), or has gone and the
\* result is dropped; the thread is free again
Finish(w) ==
    /\ pc[w] \in {"done", "raised"}
    /\ ~Awaited(w)
    /\ pc' = [pc EXCEPT ![w] = "idle"]
    /\ loc' = [loc EXCEPT ![w] = NoLoc]
    /\ UNCHANGED <<confVars, loopVars, storeVars, lastLoad, main_pc, appVars, _lock,
                   _dynamic_routes, nextId>>

Next ==
    \/ Construct
    \/ install_initial_routes
    \/ RegisterOwnRoutes
    \/ \E w \in Workers : Trigger(w)
    \/ \E w \in Workers : Acquire(w)
    \/ \E w \in Workers : Reload(w)
    \/ \E w \in Workers : Build(w)
    \/ \E w \in Workers : SwapCapture(w)
    \/ \E w \in Workers : SwapInclude(w)
    \/ \E w \in Workers : SwapAdded(w)
    \/ \E w \in Workers : SwapRemove(w)
    \/ \E w \in Workers : SwapTrack(w)
    \/ \E w \in Workers : Return(w)
    \/ \E w \in Workers : Finish(w)

Spec == Init /\ [][Next]_vars

\* a step of the thread that runs refresh_sync for worker w inside
\* _swap_routes, or its return
ThreadStep(w) ==
    \/ SwapCapture(w) \/ SwapInclude(w) \/ SwapAdded(w) \/ SwapRemove(w) \/ SwapTrack(w)
    \/ Return(w)

\* reload_if_changed() and build_router() return or raise (the HTTP request
\* has a timeout): thread w stays neither at line 39 nor at line 45 for ever.
\* Reload(w) is enabled whenever the thread is at line 39 and is the one step
\* that takes it away, and so is Build(w) at line 45, so this is weak fairness
\* of Reload(w) and of Build(w).
CallsEnd(w) == []<>(pc[w] # "l39") /\ []<>(pc[w] # "l45")

\* The same program with its scheduling: a thread that can take a step takes
\* one (the interpreter switches threads at least every switch interval and
\* every call of the body returns, the HTTP request by its timeout), and a
\* thread waiting at line 38 gets the lock if the lock is released again and
\* again.
FairSpec ==
    /\ Spec
    /\ \A w \in Workers : WF_vars(ThreadStep(w)) /\ SF_vars(Acquire(w)) /\ CallsEnd(w)

(***************************************************************************)
(* _load_manifest on its own: any call, with any flags, at any time        *)
(***************************************************************************)
Recorded(allow_fallback, conditional, resp, o) ==
    /\ SetStore(o.store)
    /\ lastLoad' = CallRecord(allow_fallback, conditional, resp, o)

LoadCall(allow_fallback, conditional, resp, file) ==
    /\ Answers(Store, conditional, resp)
    /\ Recorded(allow_fallback, conditional, resp,
                _load_manifest(Store, DBT_MANIFEST_URL, allow_fallback, conditional,
                               resp, file))
    /\ UNCHANGED <<confVars, loopVars, main_pc, appVars, mgrVars>>

LoadNext ==
    \E allow_fallback \in BOOLEAN, conditional \in BOOLEAN,
       resp \in Responses, file \in Files :
        LoadCall(allow_fallback, conditional, resp, file)

LoadSpec == Init /\ [][LoadNext]_vars

(***************************************************************************)
(* build_router and the first install on their own: the routes published   *)
(* for any snapshot and any manual configuration drawn from bounded sets   *)
(***************************************************************************)
\* the longest tag list drawn
MaxTags == 3

\* an 'api:' tag that names no resource
T_api_none == <<"a","p","i",":">>

\* tags spelled in another case
T_Production == <<"P","r","o","d","u","c","t","i","o","n">>
T_API_x      == <<"A","P","I",":","x">>
T_Daily      == <<"G","r","a","n","u","l","a","r","i","t","y",":","D">>
T_TIER2      == <<"T","I","E","R","2">>

\* the tags a drawn model may carry
TagAlphabet ==
    {T_production, T_cat, T_api_x, T_api_none, T_daily,
     T_Production, T_API_x, T_Daily, T_TIER2}

TagLists == UNION { [1..k -> TagAlphabet] : k \in 0..MaxTags }

\* the other nodes of the manifest drawn: none, or a model that is discovered
\* under /general/x
Peers == { <<>>, << Node("model", "m2", <<T_production, T_api_x>>) >> }

\* the snapshots drawn: a model whose name begins like a resource prefix, with
\* any tag list, beside the peer
TaggedSnapshots ==
    { IndexModels(<<Node("model", "api_t", t)>> \o p) : t \in TagLists, p \in Peers }

\* the columns one model may declare
MaxCols == 2

C_date            == <<"d","a","t","e">>
C_block_timestamp == <<"b","l","o","c","k","_","t","i","m","e","s","t","a","m","p">>
C_ts              == <<"t","s">>
C_address         == <<"a","d","d","r","e","s","s">>

\* a column as the manifest declares it; data_type is NoText when it gives none
ColumnsDrawn ==
    [ name : {C_date, C_block_timestamp, C_ts, C_address},
      data_type : { <<"D","a","t","e","T","i","m","e">>,
                    <<"U","I","n","t","6","4">>, NoText } ]

\* the column maps drawn: a JSON object has each key once
ColumnMaps ==
    { cs \in UNION { [1..k -> ColumnsDrawn] : k \in 0..MaxCols } :
        \A i, j \in DOMAIN cs : cs[i].name = cs[j].name => i = j }

\* a discovered model with each column map
ColumnSnapshots ==
    { IndexModels(<< [resource_type |-> "model", name |-> "api_t",
                      tags |-> <<T_production, T_api_x>>, columns |-> cs] >>) :
        cs \in ColumnMaps }

Snapshots == TaggedSnapshots \cup ColumnSnapshots

P_general_x == <<"/","g","e","n","e","r","a","l","/","x">>

\* the contents of API_CONFIG_PATH drawn: no endpoint; an endpoint that gives
\* the drawn model the path the peer derives; an endpoint that names the drawn
\* model and sets no path; an endpoint with a path for a model no manifest holds
BuildConfigs ==
    { [endpoints |-> <<>>],
      [endpoints |-> << [model |-> "api_t", path |-> P_general_x] >>],
      [endpoints |-> << [model |-> "api_t", path |-> NoText] >>],
      [endpoints |-> << [model |-> "m3", path |-> <<"/","k">>] >>],
      [endpoints |-> << [model |-> "api_t", path |-> NoText,
                         order_by |-> <<"t","s"," ","A","S","C">>] >>],
      [endpoints |-> << [model |-> "api_t", path |-> NoText,
                         parameters |-> << Param(<<"t","s">>, C_ts, "=") >>] >>] }

\* main.py line 30 is about to run: the singleton holds a drawn snapshot
BuildInit ==
    /\ DBT_MANIFEST_URL = TRUE
    /\ DBT_MANIFEST_REFRESH_ENABLED = TRUE
    /\ NoLoop
    /\ manual_config \in BuildConfigs
    /\ _models \in Snapshots
    /\ _etag = None /\ _last_modified = None
    /\ _hash = _hash_bytes("drawn") /\ _last_error = None
    /\ lastLoad = NoCall
    /\ main_pc = "install"
    /\ routes = DocRoutes
    /\ openapi_schema = None
    /\ _lock = "free"
    /\ _dynamic_routes = <<>>
    /\ nextId = 1
    /\ pc = [w \in Workers |-> "idle"]
    /\ loc = [w \in Workers |-> NoLoc]

BuildNext ==
    \/ install_initial_routes
    \/ RegisterOwnRoutes

BuildSpec == BuildInit /\ [][BuildNext]_vars

(***************************************************************************)
(* The background loop: start_background_refresh, _loop and                *)
(* stop_background_refresh, lines 52-76, on the event loop                 *)
(***************************************************************************)
\* the loop tasks one run may create
MaxTasks == 3

\* the task asyncio.create_task returns: _loop() suspended in the sleep of line
\* 61.  state is "sleeping" (line 61), "refreshing" (line 62, awaiting the thread
\* worker), "returned" (line 64) or "failed" (an exception left _loop); cancel
\* is set by Task.cancel() until the task has seen the CancelledError
NewTask == [state |-> "sleeping", cancel |-> FALSE, worker |-> None]

\* the thread of the pool that asyncio.to_thread gives the refreshes of the loop
LoopWorkers == {"w1"}

\* Task.done()
TaskDone(t) == tasks[t].state \in {"returned", "failed"}

\* line 55: self._refresh_task and not self._refresh_task.done()
LoopRunning == _refresh_task # NoTask /\ ~TaskDone(_refresh_task)

\* lines 52-66
start_background_refresh ==
    /\ main_pc = "serving"
    /\ IF ~DBT_MANIFEST_REFRESH_ENABLED \/ LoopRunning
       THEN UNCHANGED <<_refresh_task, tasks>>
       ELSE /\ Len(tasks) < MaxTasks
            /\ tasks' = Append(tasks, NewTask)
            /\ _refresh_task' = Len(tasks) + 1
    /\ UNCHANGED <<confVars, storeVars, lastLoad, main_pc, appVars, mgrVars, stop_pc>>

\* lines 61-62: the sleep of task t is over and refresh_async hands refresh_sync
\* to the thread w
LoopTick(t, w) ==
    /\ tasks[t].state = "sleeping" /\ ~tasks[t].cancel
    /\ Dispatched(w)
    /\ tasks' = [tasks EXCEPT ![t].state = "refreshing", ![t].worker = w]
    /\ UNCHANGED <<confVars, storeVars, lastLoad, main_pc, appVars, _lock,
                   _dynamic_routes, nextId, _refresh_task, stop_pc>>

\* line 62 returns to task t: with the payload, and the loop sleeps again; or
\* with the exception refresh_sync raised, which line 63 does not catch
LoopResume(t) ==
    /\ tasks[t].state = "refreshing" /\ ~tasks[t].cancel
    /\ pc[tasks[t].worker] \in {"done", "raised"}
    /\ tasks' = [tasks EXCEPT ![t].state =
                    IF pc[tasks[t].worker] = "done" THEN "sleeping" ELSE "failed",
                                ![t].worker = None]
    /\ pc' = [pc EXCEPT ![tasks[t].worker] = "idle"]
    /\ loc' = [loc EXCEPT ![tasks[t].worker] = NoLoc]
    /\ UNCHANGED <<confVars, storeVars, lastLoad, main_pc, appVars, _lock,
                   _dynamic_routes, nextId, _refresh_task, stop_pc>>

\* lines 63-64: the CancelledError reaches task t at the await it is suspended
\* in; the thread of a refresh it awaited runs on
LoopCancelled(t) ==
    /\ ~TaskDone(t) /\ tasks[t].cancel
    /\ tasks' = [tasks EXCEPT ![t].state = "returned", ![t].cancel = FALSE,
                                ![t].worker = None]
    /\ UNCHANGED <<confVars, storeVars, lastLoad, main_pc, appVars, mgrVars,
                   _refresh_task, stop_pc>>

\* lines 69-76 up to the await of line 73, for the task t tracked
Stopping(t) ==
    IF t = NoTask
    THEN /\ stop_pc' = [pc |-> "returned", task |-> NoTask]
         /\ UNCHANGED <<_refresh_task, tasks>>
    ELSE IF tasks[t].state = "failed"
    THEN /\ stop_pc' = [pc |-> "raised", task |-> t]
         /\ UNCHANGED <<_refresh_task, tasks>>
    ELSE IF tasks[t].state = "returned"
    THEN /\ stop_pc' = [pc |-> "returned", task |-> t]
         /\ _refresh_task' = NoTask
         /\ tasks' = tasks
    ELSE /\ stop_pc' = [pc |-> "awaiting", task |-> t]
         /\ tasks' = [tasks EXCEPT ![t].cancel = TRUE]
         /\ _refresh_task' = _refresh_task

\* stop_background_refresh is called
StopBegin ==
    /\ main_pc = "serving"
    /\ stop_pc.pc # "awaiting"
    /\ Stopping(_refresh_task)
    /\ UNCHANGED <<confVars, storeVars, lastLoad, main_pc, appVars, mgrVars>>

\* lines 73-76: the task awaited is done and stop_background_refresh goes on
StopResume ==
    /\ stop_pc.pc = "awaiting"
    /\ TaskDone(stop_pc.task)
    /\ IF tasks[stop_pc.task].state = "failed"
       THEN /\ stop_pc' = [stop_pc EXCEPT !.pc = "raised"]
            /\ _refresh_task' = _refresh_task
       ELSE /\ stop_pc' = [stop_pc EXCEPT !.pc = "returned"]
            /\ _refresh_task' = NoTask
    /\ UNCHANGED <<confVars, storeVars, lastLoad, main_pc, appVars, mgrVars, tasks>>

\* main.py has been imported: the singleton loaded the manifest mA from the URL
\* with both validators, and swap is what install_initial_routes published
Imported(swap) ==
    /\ routes = swap.routes \o OwnRoutes
    /\ _dynamic_routes = swap.dynamic

\* the process is about to run its startup event: a URL, no manual endpoint,
\* the background refresh enabled or not
LoopInit ==
    /\ DBT_MANIFEST_URL = TRUE
    /\ DBT_MANIFEST_REFRESH_ENABLED \in BOOLEAN
    /\ manual_config = [endpoints |-> <<>>]
    /\ NoLoop
    /\ _models = IndexModels(Parse("mA").nodes)
    /\ _etag = "e1" /\ _last_modified = "t1"
    /\ _hash = _hash_bytes("mA") /\ _last_error = None
    /\ lastLoad = NoCall
    /\ main_pc = "serving"
    /\ \E order \in Orders(models_to_expose(_models)) :
          Imported(SwapRoutes(DocRoutes, <<>>,
                              build_router(_models, manual_config, order).routes, 1))
    /\ openapi_schema = None
    /\ _lock = "free"
    /\ nextId = 2
    /\ pc = [w \in Workers |-> "idle"]
    /\ loc = [w \in Workers |-> NoLoc]

LoopNext ==
    \/ start_background_refresh
    \/ \E t \in 1..Len(tasks), w \in LoopWorkers : LoopTick(t, w)
    \/ \E t \in 1..Len(tasks) : LoopResume(t)
    \/ \E t \in 1..Len(tasks) : LoopCancelled(t)
    \/ StopBegin
    \/ StopResume
    \/ \E w \in Workers : Acquire(w)
    \/ \E w \in Workers : Reload(w)
    \/ \E w \in Workers : Build(w)
    \/ \E w \in Workers : SwapCapture(w)
    \/ \E w \in Workers : SwapInclude(w)
    \/ \E w \in Workers : SwapAdded(w)
    \/ \E w \in Workers : SwapRemove(w)
    \/ \E w \in Workers : SwapTrack(w)
    \/ \E w \in Workers : Return(w)
    \/ \E w \in Workers : Finish(w)

LoopSpec == LoopInit /\ [][LoopNext]_vars

(***************************************************************************)
(* Properties                                                              *)
(***************************************************************************)
\* the generation of a route object; 0 for a route registered outside the manager
GenOf(r) == r.id[1]

\* the routes of the live list that the manager included
Dynamic(rs) == SelectSeq(rs, LAMBDA r : GenOf(r) # 0)

Gens(rs) == { GenOf(rs[i]) : i \in 1..Len(rs) }

\* the positions of refresh_sync inside the with block
InSection == {"l39", "l45", "l25", "l26", "l27", "l29", "l34", "l47"}

\* the positions of refresh_sync inside _swap_routes
InSwap == {"l26", "l27", "l29", "l34"}

\* the route objects include_router makes of a router, as generation gen
ObjectsOf(router, gen) ==
    [i \in 1..Len(router) |-> Route(<<gen, i>>, router[i].name, V1 \o router[i].path)]

\* the routers build_router() may give for a snapshot
RoutersFor(models, config) ==
    { build_router(models, config, order).routes :
        order \in Orders(models_to_expose(models)) }

\* C1: at every instant the dynamic routes of the live route list, which request
\* dispatch reads without the lock, belong to one generation, and while a worker
\* is inside _swap_routes the list holds none or all of the generation it
\* includes.
C1_OneGenerationVisible ==
    /\ Cardinality(Gens(Dynamic(routes))) <= 1
    /\ \A w \in Workers :
        pc[w] \in InSwap =>
            Cardinality({ i \in 1..Len(routes) : GenOf(routes[i]) = loc[w].gen })
                \in {0, Len(loc[w].router)}

\* C2: when a refresh returns "reloaded", the live list holds no route object of
\* an earlier generation and no route of a model the new snapshot lacks, and the
\* tracked dynamic routes are exactly the route objects of the router built from
\* the new snapshot.
C2_ReloadedLeavesOnlyNewGeneration ==
    [][\A w \in Workers :
        (pc[w] = "l47" /\ pc'[w] = "done" /\ loc'[w].result.status = "reloaded") =>
            /\ Gens(routes') \subseteq {0, loc'[w].gen}
            /\ \A i \in 1..Len(routes') :
                GenOf(routes'[i]) # 0 => routes'[i].name \in DOMAIN _models'
            /\ Dynamic(routes') = _dynamic_routes'
            /\ _dynamic_routes' = ObjectsOf(loc'[w].router, loc'[w].gen)
            /\ loc'[w].router \in RoutersFor(_models', manual_config')]_vars

\* C2 witness: a refresh has returned "reloaded" for the snapshot mB where route
\* objects of an earlier generation, built from mA with its model m1, were live.
C2_Witness ==
    \E w \in Workers :
        /\ pc[w] = "done" /\ loc[w].result.status = "reloaded"
        /\ manual_config.endpoints = <<>>
        /\ _hash = _hash_bytes("mB")
        /\ \E id \in loc[w].before_ids : id[1] # 0

\* C3: at most one refresh is between the reload and the publish at any time,
\* it is the holder of the lock, and the router it publishes is one built from
\* the snapshot that its own reload left.
C3_RefreshesExclusive ==
    /\ Cardinality({ w \in Workers : pc[w] \in InSection }) <= 1
    /\ \A w \in Workers : pc[w] \in InSection <=> _lock = w
    /\ \A w \in Workers :
        pc[w] \in {"l25", "l26", "l27", "l29", "l34", "l47"} =>
            /\ loc[w].router \in RoutersFor(_models, manual_config)
            /\ _hash = _hash_bytes(loc[w].data)

\* C3 witness: one refresh is publishing while another waits for the lock.
C3_Witness ==
    \E w, v \in Workers : pc[w] = "l29" /\ pc[v] = "l38"

\* a refresh the remote source answered with "not modified" or with the bytes of
\* the snapshot held
SawUnchanged(l) == l.remote \in {"notmodified", "same"}

\* C4: a refresh that the remote source answers with "not modified" or with the
\* bytes of the stored snapshot ends with status "unchanged" and never reaches
\* the rebuild, and the step of its reload leaves the live list and the tracked
\* dynamic routes as they were, whatever another refresh does meanwhile.
C4_UnchangedSourceReportsUnchanged ==
    /\ [](\A w \in Workers :
            SawUnchanged(loc[w]) => pc[w] = "done" /\ loc[w].result.status = "unchanged")
    /\ [][\A w \in Workers :
            (pc[w] = "l39" /\ pc'[w] # "l39" /\ SawUnchanged(loc'[w])) =>
                routes' = routes /\ _dynamic_routes' = _dynamic_routes]_vars

\* C4 witness: two refreshes that ran at the same time have both been answered
\* by an unchanged source and both are done.
C4_Witness ==
    \A w \in Workers :
        /\ pc[w] = "done" /\ loc[w].overlap
        /\ SawUnchanged(loc[w]) /\ loc[w].result.status = "unchanged"
        /\ _dynamic_routes # <<>>

\* C5: the live list and the tracked dynamic routes are changed, once the
\* process serves, only by the refresh that holds the lock and whose reload
\* returned changed = true; a refresh whose reload returned changed = false
\* (unchanged, or an error recorded) is done at once and never reaches the swap.
C5_OnlyChangedReloadRebuilds ==
    /\ [](\A w \in Workers :
            pc[w] \in {"l45", "l25", "l26", "l27", "l29", "l34", "l47"} =>
                loc[w].changed /\ loc[w].path = "indexed")
    /\ [][(main_pc = "serving" /\ (routes' # routes \/ _dynamic_routes' # _dynamic_routes)) =>
            \E w \in Workers : _lock = w /\ pc[w] \in InSwap /\ loc[w].changed]_vars

\* C5 witness: a refresh whose reload recorded an error is done while routes of
\* the first generation are live and tracked.
C5_Witness ==
    \E w \in Workers :
        /\ pc[w] = "done" /\ loc[w].result.status = "error" /\ loc[w].path = "nodata"
        /\ _dynamic_routes # <<>> /\ Dynamic(routes) = _dynamic_routes

\* the status a refresh owes its caller, by the return point its reload reached
StatusFor(path) ==
    IF path = "indexed" THEN "reloaded"
    ELSE IF path = "nodata" THEN "error"
    ELSE "unchanged"

\* C6: every refresh returns a status payload, none ends with an exception; the
\* status is "reloaded" exactly when the reload changed the snapshot, "error"
\* with the recorded error as detail exactly when the reload obtained no usable
\* data, "unchanged" otherwise; and models is the number of models of the
\* snapshot held at the return.
C6_EveryRefreshReturnsItsStatus ==
    /\ [](\A w \in Workers : pc[w] # "raised")
    /\ [][\A w \in Workers :
            (pc[w] # "done" /\ pc'[w] = "done") =>
                /\ loc'[w].result.status = StatusFor(loc'[w].path)
                /\ loc'[w].result.status = "error" =>
                    Truthy(loc'[w].result.detail) /\ loc'[w].result.detail = _last_error'
                /\ loc'[w].result.models = model_count(_models')]_vars

\* C7: a load that accepts the bytes of the manifest the load before it accepted
\* returns false and leaves the model map and the hash as the first load left
\* them, whatever the source and the flags of either load.
C7_SameBytesLoadUnchanged ==
    [][(/\ lastLoad.called
        /\ lastLoad.data # None
        /\ Parse(lastLoad.data).kind = "dict"
        /\ lastLoad'.data = lastLoad.data)
        => /\ ~lastLoad'.ret
           /\ _models' = _models
           /\ _hash' = _hash]_vars

\* C7 witness: the bytes of the manifest mA, whose hash an earlier load stored
\* together with an entity tag of the URL, have been loaded again from the local
\* file by an unconditional load, which returned false.
C7_Witness ==
    /\ lastLoad.called /\ ~lastLoad.ret /\ ~lastLoad.conditional
    /\ lastLoad.path = "hashmatch"
    /\ lastLoad.data = "mA" /\ lastLoad.source = "file"
    /\ _hash = _hash_bytes("mA") /\ model_count(_models) = 2

\* C8: a conditional load that the remote source answers with 304 returns false
\* and leaves the model map, the hash, the entity tag and the last-modified
\* marker as they were.
C8_NotModifiedChangesNothing ==
    [][(lastLoad'.conditional /\ lastLoad'.answer = "304")
        => /\ ~lastLoad'.ret
           /\ _models' = _models
           /\ _hash' = _hash
           /\ _etag' = _etag
           /\ _last_modified' = _last_modified]_vars

\* C8 witness: a conditional load was answered with 304 while the snapshot mA
\* and both validators were stored.
C8_Witness ==
    /\ lastLoad.conditional /\ lastLoad.answer = "304"
    /\ _hash = _hash_bytes("mA") /\ model_count(_models) = 2
    /\ _etag = "e1" /\ _last_modified = "t1"

\* C9: a load that gets data from neither source (an exception, a status that is
\* neither 200 nor 304, a body or a file that does not parse or parses to
\* nothing) returns false, records a non-empty error, and leaves the model map,
\* the hash and the validators as they were.
C9_NoDataRecordsErrorKeepsSnapshot ==
    [][(/\ lastLoad'.called
        /\ lastLoad'.answer # "304"
        /\ ~HasData(lastLoad'.data))
        => /\ ~lastLoad'.ret
           /\ Truthy(_last_error')
           /\ _models' = _models
           /\ _hash' = _hash
           /\ _etag' = _etag
           /\ _last_modified' = _last_modified]_vars

\* C9 witness: with the snapshot mB and an entity tag stored, a load got a body
\* from the URL and a local file that both failed to parse, and recorded both
\* errors.
C9_Witness ==
    /\ lastLoad.called /\ lastLoad.allow_fallback /\ lastLoad.answer = "200"
    /\ lastLoad.data = None
    /\ _last_error = E_parse_url \o " | " \o E_local
    /\ _hash = _hash_bytes("mB") /\ _etag = "e2"

\* C10: a load that obtains data whose hash differs from the stored hash returns
\* true, the model map becomes exactly the nodes of the new document whose
\* resource_type is "model" keyed by name, the stored hash becomes the new hash
\* and the error is cleared.
C10_DifferingHashReplacesSnapshot ==
    [][(/\ HasData(lastLoad'.data)
        /\ _hash # _hash_bytes(lastLoad'.data))
        => /\ lastLoad'.ret
           /\ _models' = IndexModels(Parse(lastLoad'.data).nodes)
           /\ _hash' = _hash_bytes(lastLoad'.data)
           /\ _last_error' = None]_vars

\* the routes install_initial_routes published, once it has returned
Published == IF main_pc \in {"register", "serving"} THEN Dynamic(routes) ELSE <<>>

PathsOf(rs) == { rs[i].path : i \in 1..Len(rs) }

\* C11: in the table install_initial_routes published no two routes have the
\* same path, and the table has as many routes as the eligible models have
\* distinct paths.
C11_PublishedPathsUnique ==
    /\ \A i, j \in 1..Len(Published) : Published[i].path = Published[j].path => i = j
    /\ Len(Published) = Cardinality(PathsOf(Published))

\* request dispatch over the live list: the first route whose path matches
\* serves the request
Serving(rs, path) ==
    rs[CHOOSE i \in 1..Len(rs) :
         rs[i].path = path /\ \A j \in 1..(i - 1) : rs[j].path # path]

\* a route built from an entry of the manual configuration
FromManual(r) ==
    manual_map(manual_config.endpoints, r.name) # NoOverride(r.name)

\* C12: when the published table holds a route built from a manual endpoint and
\* a route of an auto-discovered model under one path, requests for that path
\* are served by the route of the manual endpoint.
C12_ManualWinsCollision ==
    \A i, j \in 1..Len(Published) :
        (/\ Published[i].path = Published[j].path
         /\ FromManual(Published[i])
         /\ ~FromManual(Published[j]))
            => Serving(routes, Published[i].path) = Published[i]

\* C13: after a load that accepted the data of the local file, whether it
\* replaced the snapshot or found the hash unchanged, no entity tag and no
\* last-modified marker is stored, whatever the URL answered in the same load.
C13_FileSourceHasNoValidators ==
    (/\ lastLoad.called
     /\ lastLoad.source = "file"
     /\ lastLoad.path \in {"hashmatch", "indexed"})
        => _etag = None /\ _last_modified = None

\* C14: no refresh cycle of the background loop ends the polling: a loop task
\* never ends with an exception, and a cycle that returns an error leaves the
\* task sleeping for its next cycle and the published table as it was.
C14_FailedCycleKeepsPolling ==
    /\ [](\A t \in 1..Len(tasks) : tasks[t].state # "failed")
    /\ [][\A t \in 1..Len(tasks) :
            (/\ tasks[t].state = "refreshing" /\ ~tasks[t].cancel
             /\ tasks'[t].state # "refreshing"
             /\ loc[tasks[t].worker].result.status = "error")
                => /\ tasks'[t].state = "sleeping"
                   /\ routes' = routes
                   /\ _dynamic_routes' = _dynamic_routes]_vars

\* C15: when stop_background_refresh returns, the task it stopped is done, no
\* thread still runs a refresh the loop dispatched, and the task reference is
\* cleared.
C15_StopLeavesNoWork ==
    [][(stop_pc' # stop_pc /\ stop_pc'.pc = "returned")
        => /\ _refresh_task' = NoTask
           /\ \A t \in 1..Len(tasks') : tasks'[t].state \in {"returned", "failed"}
           /\ \A w \in Workers : pc'[w] \in {"idle", "done", "raised"}]_vars

\* C16: while a loop task is running no further task is created, and with the
\* background refresh disabled no task is created at all.
C16_StartIdempotent ==
    /\ [](~DBT_MANIFEST_REFRESH_ENABLED => tasks = <<>> /\ _refresh_task = NoTask)
    /\ [][(\E t \in 1..Len(tasks) : ~TaskDone(t)) => Len(tasks') = Len(tasks)]_vars

\* C17: when the load of the construction found no manifest (no hash stored, an
\* error recorded), the import of main.py does not end with an exception, and
\* the table it publishes holds no derived route.
C17_StartupBestEffort ==
    (_hash = None /\ Truthy(_last_error))
        => /\ main_pc # "crashed"
           /\ main_pc \in {"register", "serving"} => Dynamic(routes) = <<>>

\* a tag that begins with 'api:' and has something other than blanks after it
NamesResource(tag) ==
    /\ Len(tag) > 4
    /\ \A k \in 1..4 : tag[k] = P_api[k]
    /\ \E k \in 5..Len(tag) : tag[k] # " "

\* the tags hold 'production' and a tag that names a resource
Qualifies(tags) ==
    /\ \E i \in 1..Len(tags) : tags[i] = T_production
    /\ \E i \in 1..Len(tags) : NamesResource(tags[i])

\* a manual endpoint names the model
Named(m) ==
    \E k \in 1..Len(manual_config.endpoints) : manual_config.endpoints[k].model = m

RouteNames(rs) == { rs[i].name : i \in 1..Len(rs) }

\* C18: in the published table a model that no manual endpoint names has a route
\* exactly when its tags hold 'production' and an 'api:' tag that names a
\* resource; a model that qualifies always has a route; so a model with
\* 'production' and no such tag has a route only if a manual endpoint names it.
C18_DiscoveredIffProductionAndApi ==
    main_pc \in {"register", "serving"} =>
        \A m \in DOMAIN _models :
            /\ ~Named(m) => (m \in RouteNames(Published) <=> Qualifies(_models[m].tags))
            /\ Qualifies(_models[m].tags) => m \in RouteNames(Published)

\* C18 witness: the table is published for a manifest whose model api_t carries
\* 'production' and a category but no 'api:' tag; it has no route, the peer has.
C18_Witness ==
    /\ main_pc = "serving"
    /\ manual_config.endpoints = <<>>
    /\ "m2" \in DOMAIN _models
    /\ _models["api_t"].tags = <<T_production, T_cat>>
    /\ RouteNames(Published) = {"m2"}

\* the path the claim gives a model with these tags and no override path
DerivedPath(tags) ==
    <<"/">> \o _extract_category(tags) \o <<"/">> \o _extract_api_resource(tags)
        \o (IF _extract_granularity(tags) = NoText THEN <<>>
            ELSE <<"/">> \o _extract_granularity(tags))

\* the path the claim gives the route of model m
ClaimedPath(m) ==
    IF manual_map(manual_config.endpoints, m).path # NoText
    THEN manual_map(manual_config.endpoints, m).path
    ELSE DerivedPath(_models[m].tags)

\* neither an override path nor a resource tag
Pathless(m) ==
    /\ manual_map(manual_config.endpoints, m).path = NoText
    /\ _extract_api_resource(_models[m].tags) = NoText

\* C19: in the published table the route of a model has the path of its manual
\* override when that gives one, whether or not the model is discovered too, and
\* otherwise /{category}/{resource} with /{granularity} appended only when the
\* tags give a granularity; a model with no resource tag and no override path
\* has no route, and every other model that is discovered or named has its own.
C19_PathDerivation ==
    main_pc \in {"register", "serving"} =>
        /\ \A i \in 1..Len(Published) :
            Published[i].path = V1 \o ClaimedPath(Published[i].name)
        /\ \A m \in DOMAIN _models :
            /\ Pathless(m) => m \notin RouteNames(Published)
            /\ (~Pathless(m) /\ (Named(m) \/ Qualifies(_models[m].tags)))
                   => m \in RouteNames(Published)

\* C19 witness: the model api_t qualifies for discovery under /c/x and a manual
\* endpoint gives it another path; its route has the path of the endpoint.
C19_Witness ==
    /\ main_pc = "serving"
    /\ "m2" \notin DOMAIN _models
    /\ _models["api_t"].tags = <<T_production, T_cat, T_api_x>>
    /\ manual_config.endpoints = << [model |-> "api_t", path |-> P_general_x] >>
    /\ Len(Published) = 1
    /\ Published[1].name = "api_t"
    /\ Published[1].path = V1 \o P_general_x

\* the position of the first tag, in stored order, with the prefix 'api:'; 0 when
\* no tag has it
FirstApiPrefixed(tags) == FirstOf({ i \in 1..Len(tags) : StartsWith(tags[i], P_api) })

\* the resource the claim gives: the trimmed remainder of that first tag alone
ResourceByFirstTag(tags) ==
    IF FirstApiPrefixed(tags) = 0 THEN NoText
    ELSE Strip(From(tags[FirstApiPrefixed(tags)], 4))

\* C20: the resource of a model is the trimmed remainder of its first tag with
\* the prefix 'api:', absent when that remainder is empty whatever the later
\* tags are; a model whose first 'api:' tag is empty and that no manual endpoint
\* names has no route in the published table.
C20_FirstApiTagDecides ==
    main_pc \in {"register", "serving"} =>
        \A m \in DOMAIN _models :
            /\ _extract_api_resource(_models[m].tags)
                   = ResourceByFirstTag(_models[m].tags)
            /\ (/\ FirstApiPrefixed(_models[m].tags) # 0
                /\ ResourceByFirstTag(_models[m].tags) = NoText
                /\ ~Named(m))
                   => m \notin RouteNames(Published)

\* the lower-case spelling of a tag list
LowerAll(tags) == [i \in 1..Len(tags) |-> Lower(tags[i])]

\* lines 139-143 on a tag list: eligible for auto-discovery
Eligible(tags) ==
    /\ \E i \in 1..Len(tags) : tags[i] = T_production
    /\ _extract_api_resource(tags) # NoText

\* C21: tag parsing is case-insensitive: a model's tags, however they are
\* spelled, give the eligibility, the presence of a resource, the granularity,
\* the category and the required tier that their lower-case spelling gives, and
\* the published table has a route for a model no manual endpoint names exactly
\* when the lower-case spelling of its tags is eligible.
C21_TagParsingIgnoresCase ==
    main_pc \in {"register", "serving"} =>
        \A m \in DOMAIN _models :
            /\ _get_required_tier(_models[m].tags)
                   = _get_required_tier(LowerAll(_models[m].tags))
            /\ _extract_category(_models[m].tags)
                   = _extract_category(LowerAll(_models[m].tags))
            /\ _extract_granularity(_models[m].tags)
                   = _extract_granularity(LowerAll(_models[m].tags))
            /\ (_extract_api_resource(_models[m].tags) = NoText)
                   <=> (_extract_api_resource(LowerAll(_models[m].tags)) = NoText)
            /\ Eligible(_models[m].tags) <=> Eligible(LowerAll(_models[m].tags))
            /\ ~Named(m) =>
                   (m \in RouteNames(Published) <=> Eligible(LowerAll(_models[m].tags)))

\* the override _build_routes hands _create_auto_route for model m
OverrideOf(m) == manual_map(manual_config.endpoints, m)

\* the columns the date filters of a parameter list are bound to
DateFilterColumns(params) ==
    { params[i].column : i \in { j \in 1..Len(params) :
          params[j].name \in { <<"s","t","a","r","t","_","d","a","t","e">>,
                               <<"e","n","d","_","d","a","t","e">> } } }

\* C22: for a published route whose override sets neither parameters nor
\* order_by, the handler orders by "<column> DESC" on the very column its
\* start_date and end_date filters are bound to, and has no ordering exactly
\* when it has no date filters. (The handler of a route is the closure built
\* from the snapshot and the configuration held, which no step replaces after
\* the install.)
C22_DefaultOrderFollowsDateFilter ==
    main_pc \in {"register", "serving"} =>
        \A m \in RouteNames(Published) \cap DOMAIN _models :
            (/\ Setting(OverrideOf(m), "parameters") = <<>>
             /\ Setting(OverrideOf(m), "order_by") = NoText)
            =>
            /\ (order_by(get_columns(_models, m), OverrideOf(m)) = NoText)
                  <=> (DateFilterColumns(allowed_params(get_columns(_models, m),
                                                        OverrideOf(m))) = {})
            /\ \A c \in DateFilterColumns(allowed_params(get_columns(_models, m),
                                                         OverrideOf(m))) :
                  order_by(get_columns(_models, m), OverrideOf(m))
                      = c \o <<" ","D","E","S","C">>

Shown(rs) == [i \in 1..Len(rs) |-> <<rs[i].name, rs[i].path>>]

\* the tables a complete build from the snapshot and the configuration held
\* would publish
TablesFor(models, config) ==
    { Shown(ObjectsOf(build_router(models, config, order).routes, 0)) :
        order \in { o \in Orders(models_to_expose(models)) :
                      ~build_router(models, config, o).raised } }

\* C24: once a refresh has reported "unchanged" and no refresh is under way, the
\* published dynamic routes are the table built from the snapshot held: no
\* failed build or swap leaves a new snapshot beside the table of the old one.
C24_TableMatchesSnapshot ==
    (/\ main_pc = "serving"
     /\ _lock = "free"
     /\ \E w \in Workers : pc[w] = "done" /\ loc[w].result.status = "unchanged")
    =>
    /\ Dynamic(routes) = _dynamic_routes
    /\ Shown(_dynamic_routes) \in TablesFor(_models, manual_config)

\* the routes of the live list registered outside the manager
Outside(rs) == SelectSeq(rs, LAMBDA r : GenOf(r) = 0)

\* C25: the routes registered outside the manager (the documentation routes,
\* root and the refresh endpoint) are in the live list, each once and in the
\* order of their registration, whatever was installed or refreshed; and a
\* step takes out of the list only route objects the manager tracked as its
\* dynamic routes.
C25_OutsideRoutesKept ==
    /\ [](Outside(routes) = IF main_pc = "serving" THEN DocRoutes \o OwnRoutes
                            ELSE DocRoutes)
    /\ [][Elems(routes) \ Elems(routes') \subseteq Elems(_dynamic_routes)]_vars

\* C25 witness: a refresh has swapped the routes of the first generation for
\* those of the second and the list still holds the four outside routes.
C25_Witness ==
    /\ main_pc = "serving"
    /\ \E w \in Workers : pc[w] = "done" /\ loc[w].result.status = "reloaded"
    /\ Gens(routes) = {0, 2}
    /\ Len(Outside(routes)) = 4

\* the loop tasks that are not done
Alive == { t \in 1..Len(tasks) : ~TaskDone(t) }

\* C26: at most one loop task is alive and it is the task the manager tracks,
\* under every interleaving of start_background_refresh and
\* stop_background_refresh on the event loop.
C26_OneTrackedLoop ==
    /\ \A t \in Alive : _refresh_task = t
    /\ Cardinality(Alive) <= 1

====
